---- MODULE Spec2Model ----
(***************************************************************************)
(* A model of the llmclient package: the retry loop of Client.Chat with    *)
(* its retry policy (shouldRetry, backoff), the request executor           *)
(* (doRequest, parseResponse) and the client configuration (NewClient,     *)
(* WithMaxRetries).                                                        *)
(*                                                                         *)
(* One invocation of Chat, SimpleRequest or RequestWithSchema is followed  *)
(* from the call to its return.  The environment is the server (the        *)
(* outcome of every httpClient.Do), the backoff timer and the caller's     *)
(* context (cancel or deadline).  The schema generator (GenerateSchema)    *)
(* and backoff are also specified on their own, as functions of their      *)
(* arguments, and Chat under concurrent use of one Client.                 *)
(***************************************************************************)
EXTENDS Integers, Sequences, FiniteSets, TLC

VARIABLES
    client,     \* the Client built by NewClient: baseURL, apiKey, model, httpClient, maxRetries
    callerReq,  \* the ChatRequest passed to Chat (by value), by the caller or by a wrapper
    req,        \* Chat's local copy of the request, after the default model substitution
    pc,         \* position of the invocation: call, doRequest, inflight, wait, done (Chat
                \* returned), aborted (the wrapper ended without calling Chat)
    attempt,    \* the loop counter of Chat
    lastErr,    \* the lastErr local of Chat
    ctx,        \* the caller's context: done, err, and where the invocation was when it ended
    calls,      \* history: number of doRequest invocations
    wire,       \* history: the request bodies handed to httpClient.Do, in order
    replies,    \* history: what httpClient.Do returned for each of them, in order
    waits,      \* history: the backoff waits that ran to completion, in order
    result,     \* what Chat returned: returned, resp, err
    op,         \* the method the caller invoked, with its arguments
    opResult,   \* what that method returned, and the struct its target points to
    boArgs,     \* backoff specification: the two attempt indexes given to backoff
    boOut,      \* backoff specification: the two durations it returned, <<>> before the call
    schArg,     \* schema specification: the type of the instance given to GenerateSchema
    schOut,     \* schema specification: what GenerateSchema returned, <<>> before the call
    inv         \* concurrency specification: the Chat invocations running on the client,
                \* each with the locals and the history of one invocation

vars == <<client, callerReq, req, pc, attempt, lastErr, ctx, calls, wire, replies,
          waits, result, op, opResult, boArgs, boOut, schArg, schOut, inv>>

chatVars == <<client, callerReq, req, pc, attempt, lastErr, ctx, calls, wire, replies,
              waits, result, op, opResult>>

\* the variables of the other specifications: the pure functions, concurrent use
pureVars == <<boArgs, boOut, schArg, schOut, inv>>

(***************************************************************************)
(* Bounds of the model.                                                    *)
(***************************************************************************)
\* WithMaxRetries is given a value in -1 .. MaxRetriesOpt
MaxRetriesOpt == 2
\* backoff is applied to attempt indexes in 0 .. MaxBackoffIdx
MaxBackoffIdx == 40
\* the clients used concurrently are built with WithMaxRetries(0 .. MaxConcRetries)
MaxConcRetries == 1
\* the structs given to GenerateSchema have 1 .. MaxFields fields
MaxFields == 2
\* nested calls of generateSchemaForType the goroutine stack has room for
MaxCallDepth == 8

(***************************************************************************)
(* int64 arithmetic.  A time.Duration is an int64 count of nanoseconds;    *)
(* it is held as its 8 bytes, least significant first, in two's            *)
(* complement, so that products wrap modulo 2^64 as they do in Go.         *)
(***************************************************************************)
Byte == 256
Int64Bytes == 8

\* the int64 of a natural number below 2^31
I64(n) ==
    [k \in 1..Int64Bytes |->
        IF k = 1 THEN n % Byte
        ELSE IF k = 2 THEN (n \div Byte) % Byte
        ELSE IF k = 3 THEN (n \div (Byte * Byte)) % Byte
        ELSE IF k = 4 THEN n \div (Byte * Byte * Byte)
        ELSE 0]

RECURSIVE Pow2(_)
Pow2(e) == IF e = 0 THEN 1 ELSE 2 * Pow2(e - 1)

\* column k of the schoolbook product a * b, without the carry
RECURSIVE MulColumn(_, _, _, _)
MulColumn(a, b, k, i) ==
    IF i > k THEN 0 ELSE a[i] * b[k + 1 - i] + MulColumn(a, b, k, i + 1)

RECURSIVE MulFrom(_, _, _, _)
MulFrom(a, b, k, carry) ==
    IF k > Int64Bytes THEN <<>>
    ELSE LET s == MulColumn(a, b, k, 1) + carry
         IN  <<s % Byte>> \o MulFrom(a, b, k + 1, s \div Byte)

\* a * b of two int64, wrapping modulo 2^64
Mul64(a, b) == MulFrom(a, b, 1, 0)

IsNeg64(a) == a[Int64Bytes] >= 128

\* a < b on the bytes from k down, read as unsigned numbers
RECURSIVE LessFrom(_, _, _)
LessFrom(a, b, k) ==
    IF k = 0 THEN FALSE
    ELSE IF a[k] # b[k] THEN a[k] < b[k]
    ELSE LessFrom(a, b, k - 1)

\* a <= b as signed int64
LessEq64(a, b) ==
    IF IsNeg64(a) # IsNeg64(b) THEN IsNeg64(a)
    ELSE ~LessFrom(b, a, Int64Bytes)

\* quotient and remainder of the unsigned number a by a small m, from byte k down
RECURSIVE DivFrom(_, _, _, _)
DivFrom(a, m, k, rem) ==
    IF k = 0 THEN [q |-> <<>>, r |-> rem]
    ELSE LET cur  == rem * Byte + a[k]
             rest == DivFrom(a, m, k - 1, cur % m)
         IN  [q |-> rest.q \o <<cur \div m>>, r |-> rest.r]

DivSmall(a, m) == DivFrom(a, m, Int64Bytes, 0)

\* the natural number of an int64 below 2^24, -1 otherwise
ToNat(a) ==
    IF \A k \in 4..Int64Bytes : a[k] = 0
    THEN a[1] + Byte * a[2] + Byte * Byte * a[3]
    ELSE -1

\* a duration in whole seconds; -1 if it is negative, not whole, or 2^24 s and more
InSeconds(d) ==
    LET d1 == DivSmall(d, 1000)
        d2 == DivSmall(d1.q, 1000)
        d3 == DivSmall(d2.q, 1000)
    IN  IF IsNeg64(d) \/ d1.r # 0 \/ d2.r # 0 \/ d3.r # 0 THEN -1 ELSE ToNat(d3.q)

(***************************************************************************)
(* Retry policy.                                                           *)
(***************************************************************************)
\* time.Second, in nanoseconds
Second == I64(1000000000)

\* time.Duration(math.Pow(2, float64(attempt))): 2^attempt is exact in a float64
\* and fits an int64 for 0 <= attempt <= 62
PowDuration(n) ==
    [k \in 1..Int64Bytes |->
        IF k = (n \div 8) + 1 THEN Pow2(n % 8) ELSE 0]

\* backoff(attempt): the product wraps modulo 2^64 like every int64 product
backoff(n) == Mul64(PowDuration(n), Second)

(***************************************************************************)
(* Values: errors, HTTP responses, requests.                               *)
(***************************************************************************)
\* An error value: its kind, the HTTP status it carries (0: none), the cause it
\* names and the error it wraps with %w (a sequence of at most one error).
Err(type, status, cause, wraps) ==
    [type |-> type, status |-> status, cause |-> cause, wraps |-> wraps]

NilErr == Err("nil", 0, "", <<>>)

\* ctx.Err(): context.Canceled or context.DeadlineExceeded
CtxErr(c) == Err("ctx", 0, c.err, <<>>)
\* what httpClient.Do returns when the context ends the call: a *url.Error wrapping ctx.Err()
DoCtxErr(c) == Err("do", 0, c.err, <<CtxErr(c)>>)
\* what httpClient.Do returns on a network failure (refused, reset, DNS)
DoNetErr == Err("do", 0, "network", <<>>)

StatusOK == 200
StatusTooManyRequests == 429
StatusInternalServerError == 500

\* the statuses the server answers with
Statuses == {StatusOK, 201, 204, 400, 404, StatusTooManyRequests, StatusInternalServerError, 503}

\* A response body: whether it is valid JSON for a ChatResponse, and the
\* contents of the choices it decodes to.
Body(valid, choices) == [valid |-> valid, choices |-> choices]
TextBody == Body(FALSE, <<>>)

\* contents of a choice's message: a JSON object that fits a struct with a
\* string Name and an int Age, one whose age is a string, the first after
\* some words of the model, and plain text
JohnJSON == "{\"name\":\"John\",\"age\":35}"
OldJohnJSON == "{\"name\":\"John\",\"age\":\"old\"}"
WrappedJSON == "Here it is: {\"name\":\"John\",\"age\":35}"

OKBodies ==
    {TextBody, Body(TRUE, <<>>), Body(TRUE, <<"c1">>), Body(TRUE, <<"c1", "c2">>),
     Body(TRUE, <<JohnJSON, "c2">>), Body(TRUE, <<OldJohnJSON>>), Body(TRUE, <<WrappedJSON>>)}

HTTPResponse(status, body) == [StatusCode |-> status, Body |-> body]
NoResponse == HTTPResponse(0, TextBody)

Responses ==
    {HTTPResponse(StatusOK, b) : b \in OKBodies}
        \cup {HTTPResponse(s, TextBody) : s \in Statuses \ {StatusOK}}

\* what httpClient.Do returns: (*http.Response, error)
DoResult(resp, err) == [resp |-> resp, err |-> err]

\* the zero ChatResponse
ZeroChatResponse == [Choices |-> <<>>]

\* a Message of the conversation
Message(role, content) == [Role |-> role, Content |-> content]

\* shouldRetry with the rate-limit status forgotten
shouldRetry_No429(err, resp) ==
    IF err # NilErr THEN TRUE
    ELSE IF resp.StatusCode >= StatusInternalServerError THEN TRUE
    ELSE FALSE

\* shouldRetry taking every 4xx for retryable, not 429 alone
shouldRetry_From400(err, resp) ==
    IF err # NilErr THEN TRUE
    ELSE IF resp.StatusCode >= 400 THEN TRUE
    ELSE FALSE

\* shouldRetry(err, resp)
shouldRetry(err, resp) ==
    IF err # NilErr THEN TRUE
    ELSE IF resp.StatusCode >= StatusInternalServerError
            \/ resp.StatusCode = StatusTooManyRequests THEN TRUE
    ELSE FALSE

(***************************************************************************)
(* Request executor.                                                       *)
(***************************************************************************)
\* json.Marshal(req): a float field holding NaN cannot be encoded; otherwise
\* the body carries the model and the messages of the request (the strings of
\* the model are valid UTF-8, which the encoder writes and a decoder reads back
\* unchanged)
MarshalFails(r) == r.Temperature = "NaN"
\* the body sent; json_schema is omitted (<<>>) when the map is empty
Marshal(r) == [model |-> r.Model, messages |-> r.Messages, json_schema |-> r.JSONSchema]

\* http.NewRequestWithContext fails when the URL does not parse
BadURL == "::bad"
NewRequestFails(c) == c.baseURL = BadURL

\* parseResponse taking every 2xx status for a success
parseResponse_Any2xx(resp) ==
    IF resp.StatusCode < 200 \/ resp.StatusCode > 299
    THEN [resp |-> ZeroChatResponse, err |-> Err("api", resp.StatusCode, "", <<>>)]
    ELSE IF ~resp.Body.valid
    THEN [resp |-> ZeroChatResponse, err |-> Err("decode", 0, "", <<>>)]
    ELSE IF Len(resp.Body.choices) = 0
    THEN [resp |-> [Choices |-> resp.Body.choices], err |-> Err("nochoices", 0, "", <<>>)]
    ELSE [resp |-> [Choices |-> resp.Body.choices], err |-> NilErr]

\* parseResponse without the check for an empty list of choices
parseResponse_NoChoicesCheck(resp) ==
    IF resp.StatusCode # StatusOK
    THEN [resp |-> ZeroChatResponse, err |-> Err("api", resp.StatusCode, "", <<>>)]
    ELSE IF ~resp.Body.valid
    THEN [resp |-> ZeroChatResponse, err |-> Err("decode", 0, "", <<>>)]
    ELSE [resp |-> [Choices |-> resp.Body.choices], err |-> NilErr]

\* parseResponse(resp): (ChatResponse, error)
parseResponse(resp) ==
    IF resp.StatusCode # StatusOK
    THEN [resp |-> ZeroChatResponse, err |-> Err("api", resp.StatusCode, "", <<>>)]
    ELSE IF ~resp.Body.valid
    THEN [resp |-> ZeroChatResponse, err |-> Err("decode", 0, "", <<>>)]
    ELSE IF Len(resp.Body.choices) = 0
    THEN [resp |-> [Choices |-> resp.Body.choices], err |-> Err("nochoices", 0, "", <<>>)]
    ELSE [resp |-> [Choices |-> resp.Body.choices], err |-> NilErr]

(***************************************************************************)
(* Client configuration.                                                   *)
(***************************************************************************)
DefaultMaxRetries == 3

WithMaxRetries(n) == [opt |-> "WithMaxRetries", maxRetries |-> n]

ApplyOption(c, o) ==
    IF o.opt = "WithMaxRetries" THEN [c EXCEPT !.maxRetries = o.maxRetries] ELSE c

RECURSIVE ApplyOptions(_, _)
ApplyOptions(c, opts) ==
    IF opts = <<>> THEN c ELSE ApplyOptions(ApplyOption(c, Head(opts)), Tail(opts))

NewClient(baseURL, apiKey, model, opts) ==
    ApplyOptions([baseURL |-> baseURL, apiKey |-> apiKey, model |-> model,
                  httpClient |-> "DefaultClient", maxRetries |-> DefaultMaxRetries],
                 opts)

(***************************************************************************)
(* Schema generator.  A reflect.Type is a tree: its kind, its name, its    *)
(* element type (pointer, slice, array) and its fields (struct).  A type   *)
(* that refers to itself names the struct it goes back to (kind "ref").    *)
(***************************************************************************)
Ty(kind, name, elem, fields) ==
    [kind |-> kind, name |-> name, elem |-> elem, fields |-> fields]
Basic(kind) == Ty(kind, "", <<>>, <<>>)
NamedType(kind, name) == Ty(kind, name, <<>>, <<>>)
PtrTo(t) == Ty("ptr", "", <<t>>, <<>>)
SliceOf(t) == Ty("slice", "", <<t>>, <<>>)
StructOf(name, fields) == Ty("struct", name, <<>>, fields)
RefTo(name) == Ty("ref", name, <<>>, <<>>)

\* A reflect.StructField: Name, PkgPath ("" for an exported field), Anonymous,
\* Type, and its tags: the json tag as its comma-separated parts, the schema
\* tag as its semicolon-separated key=value parts.
Field(name, pkgPath, anonymous, type, json, schema) ==
    [Name |-> name, PkgPath |-> pkgPath, Anonymous |-> anonymous, Type |-> type,
     json |-> json, schema |-> schema]

\* the parts of an absent tag: strings.Split("", sep) is [""]
NoTag == <<"">>
NoSchemaTag == <<>>

\* type Node struct { Value int `json:"value"`; Next *Node `json:"next,omitempty"` }
NodeType ==
    StructOf("Node", <<Field("Value", "", FALSE, Basic("int"), <<"value">>, NoSchemaTag),
                       Field("Next", "", FALSE, PtrTo(RefTo("Node")),
                             <<"next", "omitempty">>, NoSchemaTag)>>)

\* type Tree struct { Label string `json:"label"`; Children []Tree `json:"children"` }
TreeType ==
    StructOf("Tree", <<Field("Label", "", FALSE, Basic("string"), <<"label">>, NoSchemaTag),
                       Field("Children", "", FALSE, SliceOf(RefTo("Tree")),
                             <<"children">>, NoSchemaTag)>>)

\* the struct a self-reference goes back to
TypeNamed(name) == IF name = "Node" THEN NodeType ELSE TreeType

\* t.Elem()
Elem(t) == IF t.elem[1].kind = "ref" THEN TypeNamed(t.elem[1].name) ELSE t.elem[1]

\* what a generator function returns: a schema, an error, or no return at
\* all: a run-time panic, or the stack overflow of a recursion without end
GenOK(schema) == [kind |-> "ok", schema |-> <<schema>>, err |-> NilErr]
GenErr(err) == [kind |-> "error", schema |-> <<>>, err |-> err]
GenPanic == [kind |-> "panic", schema |-> <<>>, err |-> NilErr]
GenOverflow == [kind |-> "overflow", schema |-> <<>>, err |-> NilErr]

\* field.IsExported()
IsExported(f) == f.PkgPath = ""

\* the loop over parts[1:] looking for "omitempty"
RECURSIVE isOptionalFrom(_, _)
isOptionalFrom(parts, i) ==
    IF i > Len(parts) THEN FALSE
    ELSE IF parts[i] = "omitempty" THEN TRUE
    ELSE isOptionalFrom(parts, i + 1)

\* the loop with the marker misspelt: no field is ever optional
isOptional_Never(parts) == FALSE

isOptional(parts) == isOptionalFrom(parts, 2)

\* parseSchemaTag(tag, key): the value of the first part that starts with key=
RECURSIVE parseSchemaTagFrom(_, _, _)
parseSchemaTagFrom(tag, key, i) ==
    IF i > Len(tag) THEN ""
    ELSE IF tag[i].key = key THEN tag[i].val
    ELSE parseSchemaTagFrom(tag, key, i + 1)

parseSchemaTag(tag, key) == parseSchemaTagFrom(tag, key, 1)

\* schema["required"] = requiredFields, only when there are any
WithRequired(schema, required) ==
    IF Len(required) > 0 THEN ("required" :> required) @@ schema ELSE schema

RECURSIVE generateSchemaForType(_, _)
RECURSIVE generateObjectFrom(_, _, _, _, _)

\* generateArraySchema(t)
generateArraySchema(t, depth) ==
    LET e == generateSchemaForType(Elem(t), depth + 1)
    IN  IF e.kind # "ok" THEN e
        ELSE GenOK([type |-> "array", items |-> e.schema[1]])

\* The copy of an embedded schema into the parent: every property, then the
\* required names.  embeddedSchema["properties"].(map[string]interface{})
\* panics when the schema has no "properties".
EmbeddedMerge(e, props, required) ==
    IF ~("properties" \in DOMAIN e)
    THEN [panic |-> TRUE, props |-> props, required |-> required]
    ELSE [panic |-> FALSE,
          props |-> e.properties @@ props,
          required |-> required \o (IF "required" \in DOMAIN e THEN e.required ELSE <<>>)]

\* the error of a field returned as it comes, without the field's name
FieldError_Bare(f, err) == err

\* fmt.Errorf("ошибка в поле %s: %w", field.Name, err)
FieldError(f, err) == Err("field", 0, f.Name, <<err>>)

\* jsonTag == "-"
IsSkippedTag(parts) == parts = <<"-">>

\* generateObjectSchema(t): the loop over the fields from field i on, with the
\* properties and the required names gathered so far
generateObjectFrom(t, i, props, required, depth) ==
    IF i > Len(t.fields)
    THEN GenOK(WithRequired([type |-> "object", properties |-> props], required))
    ELSE LET f == t.fields[i]
         IN  IF ~IsExported(f)
             THEN generateObjectFrom(t, i + 1, props, required, depth)
             ELSE IF f.Anonymous
             THEN LET e == generateSchemaForType(f.Type, depth + 1)
                  IN  IF e.kind # "ok" THEN e
                      ELSE LET m == EmbeddedMerge(e.schema[1], props, required)
                           IN  IF m.panic THEN GenPanic
                               ELSE generateObjectFrom(t, i + 1, m.props, m.required, depth)
             ELSE IF IsSkippedTag(f.json)
             THEN generateObjectFrom(t, i + 1, props, required, depth)
             ELSE LET jsonName == IF f.json[1] = "" THEN f.Name ELSE f.json[1]
                      req2     == IF ~isOptional(f.json)
                                  THEN Append(required, jsonName) ELSE required
                      p        == generateSchemaForType(f.Type, depth + 1)
                      desc     == parseSchemaTag(f.schema, "description")
                  IN  IF p.kind = "error" THEN GenErr(FieldError(f, p.err))
                      ELSE IF p.kind # "ok" THEN p
                      ELSE generateObjectFrom(t, i + 1,
                              (jsonName :> (IF desc # ""
                                            THEN ("description" :> desc) @@ p.schema[1]
                                            ELSE p.schema[1])) @@ props,
                              req2, depth)

generateObjectSchema(t, depth) == generateObjectFrom(t, 1, <<>>, <<>>, depth)

IntKinds == {"int", "int8", "int16", "int32", "int64",
             "uint", "uint8", "uint16", "uint32", "uint64"}
FloatKinds == {"float32", "float64"}
UnsupportedKinds == {"map", "func", "chan", "interface"}

\* generateSchemaForType(t); depth counts the calls of it on the stack
generateSchemaForType(t, depth) ==
    IF depth > MaxCallDepth THEN GenOverflow
    ELSE IF t.kind = "struct" THEN generateObjectSchema(t, depth)
    ELSE IF t.kind \in {"slice", "array"} THEN generateArraySchema(t, depth)
    ELSE IF t.kind = "string" THEN GenOK([type |-> "string"])
    ELSE IF t.kind \in IntKinds THEN GenOK([type |-> "integer"])
    ELSE IF t.kind \in FloatKinds THEN GenOK([type |-> "number"])
    ELSE IF t.kind = "bool" THEN GenOK([type |-> "boolean"])
    ELSE IF t.kind = "ptr" THEN generateSchemaForType(Elem(t), depth + 1)
    ELSE GenErr(Err("unsupported", 0, t.kind, <<>>))

\* GenerateSchema(instance), given reflect.TypeOf(instance); the type of a nil
\* instance is nil, and its Kind() panics
GenerateSchema(instanceType) ==
    IF instanceType.kind = "nil" THEN GenPanic
    ELSE LET t == IF instanceType.kind = "ptr" THEN Elem(instanceType) ELSE instanceType
         IN  IF t.kind # "struct" THEN GenErr(Err("notstruct", 0, t.kind, <<>>))
             ELSE generateSchemaForType(t, 1)

(***************************************************************************)
(* The struct types GenerateSchema is given: a pool of field declarations  *)
(* and the structs made of them.                                           *)
(***************************************************************************)
Plain(name, type, json) == Field(name, "", FALSE, type, json, NoSchemaTag)
Embedded(name, type) == Field(name, "", TRUE, type, NoTag, NoSchemaTag)

FName == Plain("Name", Basic("string"), <<"name">>)
FAge == Plain("Age", Basic("int"), <<"age", "omitempty">>)
FNote == Plain("Note", Basic("string"), <<"", "omitempty">>)
FActive == Plain("Active", Basic("bool"), NoTag)
FAlias == Plain("Alias", Basic("int"), <<"name", "omitempty">>)
FScore == Field("Score", "", FALSE, Basic("float64"), <<"score", "string">>,
                <<[key |-> "description", val |-> "the score"]>>)
FTags == Plain("Tags", SliceOf(Basic("string")), <<"tags">>)
FMeta == Plain("Meta", Basic("map"), <<"meta">>)
FHandlers == Plain("Handlers", SliceOf(Basic("func")), <<"handlers", "omitempty">>)
FEvents == Plain("Events", PtrTo(Basic("chan")), <<"events">>)
FAddr == Plain("Addr", StructOf("Addr", <<FMeta>>), <<"addr">>)
Fhidden == Field("hidden", "llmclient", FALSE, Basic("map"), NoTag, NoSchemaTag)
FSkip == Plain("Skip", Basic("func"), <<"-">>)

InnerType ==
    StructOf("Inner", <<Plain("City", Basic("string"), <<"city">>),
                        Plain("Zip", Basic("string"), <<"zip", "omitempty">>)>>)
FInner == Embedded("Inner", InnerType)
FInnerPtr == Embedded("Inner", PtrTo(InnerType))
FBad == Embedded("Bad", StructOf("Bad", <<Plain("Data", Basic("interface"), <<"data">>)>>))
FLabel == Embedded("Label", NamedType("string", "Label"))
FLabels == Embedded("Labels", Ty("slice", "Labels", <<Basic("string")>>, <<>>))
FReader == Embedded("Reader", NamedType("interface", "Reader"))
Finner == Field("inner", "llmclient", TRUE, InnerType, NoTag, NoSchemaTag)

FieldPool ==
    {FName, FAge, FNote, FActive, FAlias, FScore, FTags, FMeta, FHandlers, FEvents,
     FAddr, Fhidden, FSkip, FInner, FInnerPtr, FBad, FLabel, FLabels, FReader, Finner}

\* a struct declares each field name once
DistinctNames(fields) ==
    \A i, j \in 1..Len(fields) : fields[i].Name = fields[j].Name => i = j

FieldLists ==
    {fs \in UNION {[1..n -> FieldPool] : n \in 1..MaxFields} : DistinctNames(fs)}

StructTypes == {StructOf("T", fs) : fs \in FieldLists} \cup {NodeType, TreeType}

\* the types of the instances: a struct, a pointer to one, and what is no
\* struct: a string, a slice, a pointer to a pointer, the nil interface
Instances ==
    StructTypes \cup {PtrTo(t) : t \in StructTypes}
        \cup {Basic("string"), SliceOf(Basic("int")),
              PtrTo(PtrTo(StructOf("T", <<FName>>))), Basic("nil")}

\* type Person struct { Name string `json:"name"`; Age int `json:"age,omitempty"` }
PersonType == StructOf("T", <<FName, FAge>>)

(***************************************************************************)
(* The wrappers of Chat: SimpleRequest and RequestWithSchema.              *)
(***************************************************************************)
\* the ChatRequest with every field zero but these
ChatRequest(model, temperature, messages, jsonSchema) ==
    [Model |-> model, Temperature |-> temperature, Messages |-> messages,
     JSONSchema |-> jsonSchema]

\* the messages of SimpleRequest with the system message always there
SimpleRequestMessages_AlwaysSystem(systemPrompt, userPrompt) ==
    <<Message("system", systemPrompt), Message("user", userPrompt)>>

\* the messages SimpleRequest builds
SimpleRequestMessages(systemPrompt, userPrompt) ==
    (IF systemPrompt # "" THEN <<Message("system", systemPrompt)>> ELSE <<>>)
        \o <<Message("user", userPrompt)>>

\* the messages of RequestWithSchema with an empty system prompt left out
RequestWithSchemaMessages_OmitEmpty(systemPrompt, userPrompt) ==
    (IF systemPrompt # "" THEN <<Message("system", systemPrompt)>> ELSE <<>>)
        \o <<Message("user", userPrompt)>>

\* the messages RequestWithSchema builds
RequestWithSchemaMessages(systemPrompt, userPrompt) ==
    <<Message("system", systemPrompt), Message("user", userPrompt)>>

\* RequestWithSchema going on after a failed GenerateSchema, with a nil schema
SchemaFailed_Ignored(gen) == FALSE

\* if err != nil { return err } after GenerateSchema
SchemaFailed(gen) == gen.err # NilErr

\* The content of a choice read as JSON: whether it is well-formed, and the
\* object it denotes, each member with its JSON kind and its value.
JSONString(v) == [kind |-> "string", str |-> v, num |-> 0]
JSONNumber(v) == [kind |-> "number", str |-> "", num |-> v]
ParseJSON(content) ==
    IF content = JohnJSON
    THEN [ok |-> TRUE, object |-> [name |-> JSONString("John"), age |-> JSONNumber(35)]]
    ELSE IF content = OldJohnJSON
    THEN [ok |-> TRUE, object |-> [name |-> JSONString("John"), age |-> JSONString("old")]]
    ELSE [ok |-> FALSE, object |-> <<>>]

\* the JSON kind a field of a basic type is decoded from
JSONKind(t) ==
    IF t.kind = "string" THEN "string"
    ELSE IF t.kind \in IntKinds \cup FloatKinds THEN "number"
    ELSE IF t.kind = "bool" THEN "boolean"
    ELSE "other"

\* the fields of a struct type that encoding/json decodes into
DecodedFields(t) ==
    {t.fields[i] : i \in {j \in 1..Len(t.fields) :
        t.fields[j].PkgPath = "" /\ ~t.fields[j].Anonymous /\ t.fields[j].json # <<"-">>}}

KeyOf(f) == IF f.json[1] = "" THEN f.Name ELSE f.json[1]

\* the zero value of a field of a basic type
ZeroOf(t) == IF t.kind = "string" THEN "" ELSE 0

\* the struct a target points to, as a value: field name to field value
ZeroStruct(t) == [n \in {t.fields[i].Name : i \in 1..Len(t.fields)} |->
                    ZeroOf((CHOOSE f \in {t.fields[i] : i \in 1..Len(t.fields)} : f.Name = n).Type)]

\* a member of the object fits the field it is decoded into
Fits(f, object) == object[KeyOf(f)].kind = JSONKind(f.Type)

\* json.Unmarshal that takes any content for an empty object
Unmarshal_AnyContent(content, targetType, value) ==
    [err |-> NilErr, value |-> value]

\* json.Unmarshal([]byte(content), target): the error, and the struct the
\* target points to afterwards.  A target that is no pointer is refused; a
\* content that is no JSON is refused and leaves the struct alone; a member
\* of the wrong kind is skipped and reported, the others are stored.
Unmarshal(content, targetType, value) ==
    LET p == ParseJSON(content)
        st == Elem(targetType)
    IN  IF targetType.kind # "ptr"
        THEN [err |-> Err("unmarshal", 0, "invalid target", <<>>), value |-> value]
        ELSE IF ~p.ok
        THEN [err |-> Err("unmarshal", 0, "syntax", <<>>), value |-> value]
        ELSE LET named == DecodedFields(st)
                 given == {f \in named : KeyOf(f) \in DOMAIN p.object}
                 stored == {f \in given : Fits(f, p.object)}
                 new == [n \in DOMAIN value |->
                            IF \E f \in stored : f.Name = n
                            THEN LET f == CHOOSE g \in stored : g.Name = n
                                 IN  IF JSONKind(f.Type) = "string"
                                     THEN p.object[KeyOf(f)].str
                                     ELSE p.object[KeyOf(f)].num
                            ELSE value[n]]
             IN  [err |-> IF stored = given THEN NilErr
                          ELSE Err("unmarshal", 0, "type", <<>>),
                  value |-> new]

\* the invocation of a method of the client
Op(name, systemPrompt, userPrompt, target) ==
    [name |-> name, systemPrompt |-> systemPrompt, userPrompt |-> userPrompt,
     target |-> target]

\* what the method returned: the content (SimpleRequest), the error, whether
\* the goroutine panicked instead of returning, and the struct of the target
OpPending(value) ==
    [returned |-> FALSE, content |-> "", err |-> NilErr, panicked |-> FALSE, value |-> value]
OpReturned(content, err, value) ==
    [returned |-> TRUE, content |-> content, err |-> err, panicked |-> FALSE, value |-> value]
OpPanicked(value) ==
    [returned |-> FALSE, content |-> "", err |-> NilErr, panicked |-> TRUE, value |-> value]

\* The wrapper after Chat: what it returns for what Chat returned (res), or
\* that it has not returned while Chat has not.
AfterChat(o, res, before) ==
    IF ~res.returned THEN before
    ELSE IF o.name = "Chat" THEN OpReturned("", res.err, before.value)
    ELSE IF res.err # NilErr THEN OpReturned("", res.err, before.value)
    ELSE IF Len(res.resp.Choices) = 0
    THEN OpReturned("", Err("nochoices", 0, "", <<>>), before.value)
    ELSE IF o.name = "SimpleRequest"
    THEN OpReturned(res.resp.Choices[1], NilErr, before.value)
    ELSE LET u == Unmarshal(res.resp.Choices[1], o.target[1], before.value[1])
         IN  OpReturned("", u.err, <<u.value>>)

(***************************************************************************)
(* Client.Chat: the retry loop.                                            *)
(***************************************************************************)
\* the substitution without its condition: the default model always wins
SubstituteModel_Always(r, c) == [r EXCEPT !.Model = c.model]

\* the substitution left out
SubstituteModel_Never(r, c) == r

\* if req.Model == "" { req.Model = c.model }
SubstituteModel(r, c) == IF r.Model = "" THEN [r EXCEPT !.Model = c.model] ELSE r

\* the loop condition off by one: attempt < c.maxRetries
LoopCond_Less(a, c) == a < c.maxRetries

\* the loop condition: attempt <= c.maxRetries
LoopCond(a, c) == a <= c.maxRetries

\* the select without its timer case: only ctx.Done() wakes it
SelectReady_CtxOnly(ctxDone, timerFired) == IF ctxDone THEN {"ctxDone"} ELSE {}

\* the select without its ctx.Done() case: a plain sleep
SelectReady_TimerOnly(ctxDone, timerFired) == IF timerFired THEN {"timer"} ELSE {}

\* the cases of the select that can proceed: <-ctx.Done() once the context is
\* done, <-time.After(...) once the timer has fired
SelectReady(ctxDone, timerFired) ==
    (IF ctxDone THEN {"ctxDone"} ELSE {}) \cup (IF timerFired THEN {"timer"} ELSE {})

\* time.After(d) has fired by the time the select looks at it iff d <= 0
FiresAtOnce(d) == LessEq64(d, I64(0))

NotReturned == [returned |-> FALSE, resp |-> ZeroChatResponse, err |-> NilErr]
Returned(resp, err) == [returned |-> TRUE, resp |-> resp, err |-> err]

\* where Chat is after a step: position, loop counter, lastErr, return value
Ctl(p, a, le, res) == [pc |-> p, attempt |-> a, lastErr |-> le, result |-> res]

\* return resp, fmt.Errorf("max retries exceeded: %w", lastErr)
MaxRetriesExceeded(le) == Err("maxretries", 0, "", <<le>>)

\* the wait of every retry as long as the one after it
WaitDuration_Next(a) == backoff(a)

\* time.After(backoff(attempt - 1))
WaitDuration(a) == backoff(a - 1)

\* The head of iteration a, up to the next point where Chat blocks or returns:
\* the loop condition, then for a > 0 the select on ctx.Done() and the timer.
LoopHead(a, le, c) ==
    IF ~LoopCond(a, client)
    THEN {Ctl("done", a, le, Returned(ZeroChatResponse, MaxRetriesExceeded(le)))}
    ELSE IF a > 0
    THEN LET ready == SelectReady(c.done, FiresAtOnce(WaitDuration(a)))
         IN  IF ready = {} THEN {Ctl("wait", a, le, NotReturned)}
             ELSE {IF case = "ctxDone"
                   THEN Ctl("done", a, le, Returned(ZeroChatResponse, CtxErr(c)))
                   ELSE Ctl("doRequest", a, le, NotReturned) : case \in ready}
    ELSE {Ctl("doRequest", a, le, NotReturned)}

\* doRequest returned an error: lastErr = err; return it unless shouldRetry; continue
AfterErr(err, a, c) ==
    IF ~shouldRetry(err, NoResponse)
    THEN {Ctl("done", a, err, Returned(ZeroChatResponse, err))}
    ELSE LoopHead(a + 1, err, c)

\* lastErr set only when no cause was recorded before
StatusErr_KeepFirst(resp, le) ==
    IF le # NilErr THEN le ELSE Err("http", resp.StatusCode, "", <<>>)

\* lastErr = fmt.Errorf("HTTP %d", resp.StatusCode)
StatusErr(resp, le) == Err("http", resp.StatusCode, "", <<>>)

\* doRequest returned a response: parse and return it unless shouldRetry;
\* otherwise lastErr = "HTTP <status>" and the loop goes on
AfterResp(resp, a, le, c) ==
    IF ~shouldRetry(NilErr, resp)
    THEN LET r == parseResponse(resp)
         IN  {Ctl("done", a, le, Returned(r.resp, r.err))}
    ELSE LoopHead(a + 1, StatusErr(resp, le), c)

\* the waits completed once Chat has moved to ctl: a wait ends when a retry
\* (attempt > 0) reaches its doRequest
WaitsAfterOf(ctl, ws) ==
    IF ctl.pc = "doRequest" /\ ctl.attempt > 0
    THEN Append(ws, WaitDuration(ctl.attempt)) ELSE ws

WaitsAfter(ctl) == WaitsAfterOf(ctl, waits)

Goto(ctl) ==
    /\ pc' = ctl.pc
    /\ attempt' = ctl.attempt
    /\ lastErr' = ctl.lastErr
    /\ result' = ctl.result
    /\ waits' = WaitsAfter(ctl)
    /\ opResult' = AfterChat(op, ctl.result, opResult)

\* the context was already done when this send was handed to httpClient.Do
CancelledBeforeSendOf(c, w) == c.done /\ ~(c.phase = "inflight" /\ c.sends = Len(w))

CancelledBeforeSend == CancelledBeforeSendOf(ctx, wire)

\* What httpClient.Do can return for the send in flight.  A context that is
\* done before the call makes the transport return its error without sending;
\* a context that ends during the call races the server's answer.
DoOutcomesOf(c, w, responses) ==
    LET answers == {DoResult(r, NilErr) : r \in responses}
        netErr  == {DoResult(NoResponse, DoNetErr)}
        ctxErr  == {DoResult(NoResponse, DoCtxErr(c))}
    IN  IF CancelledBeforeSendOf(c, w) THEN ctxErr
        ELSE IF c.done THEN ctxErr \cup answers \cup netErr
        ELSE answers \cup netErr

DoOutcomes == DoOutcomesOf(ctx, wire, Responses)

(***************************************************************************)
(* Initial states: a client from NewClient, a request from the caller.     *)
(***************************************************************************)
BaseURLs == {"http://host/v1", BadURL}
ModelNames == {"", "default-model"}
RequestModels == {"", "gpt-3.5-turbo"}
Temperatures == {"0", "NaN"}
OptionLists == {<<>>} \cup {<<WithMaxRetries(n)>> : n \in -1..MaxRetriesOpt}

Clients == {NewClient(u, "test-key", m, o) : u \in BaseURLs, m \in ModelNames, o \in OptionLists}

ChatRequests ==
    {ChatRequest(m, t, <<Message("user", "Hello")>>, <<>>) :
        m \in RequestModels, t \in Temperatures}

\* the zero ChatRequest: no Chat has been called yet
ZeroChatRequest == ChatRequest("", "0", <<>>, <<>>)

\* The invocations: Chat with a request of the caller, SimpleRequest and
\* RequestWithSchema with or without a system prompt; the targets of
\* RequestWithSchema are a pointer to a struct with Name and Age, that struct
\* by value, a pointer to a struct with a map field, and a pointer to a struct
\* that embeds a named string type.
SystemPrompts == {"", "You are a helpful assistant."}
Targets ==
    {PtrTo(PersonType), PersonType, PtrTo(StructOf("T", <<FMeta>>)),
     PtrTo(StructOf("T", <<FLabel>>))}
Ops ==
    {Op("Chat", "", "", <<>>)}
        \cup {Op("SimpleRequest", sp, "Hello", <<>>) : sp \in SystemPrompts}
        \cup {Op("RequestWithSchema", sp, "Hello", <<t>>) : sp \in SystemPrompts, t \in Targets}

\* the struct the target of an invocation points to (or is), before the call
TargetValue(o) ==
    IF o.target = <<>> THEN <<>>
    ELSE <<ZeroStruct(IF o.target[1].kind = "ptr" THEN Elem(o.target[1]) ELSE o.target[1])>>

\* context.Background(): not done; phase, sends and calls record where the
\* invocation was when the context ended
Background == [done |-> FALSE, err |-> "", phase |-> "", sends |-> 0, calls |-> 0]

InitChat ==
    /\ client \in Clients
    /\ op \in Ops
    /\ opResult = OpPending(TargetValue(op))
    /\ callerReq \in (IF op.name = "Chat" THEN ChatRequests ELSE {ZeroChatRequest})
    /\ req = callerReq
    /\ pc = "call"
    /\ attempt = 0
    /\ lastErr = NilErr
    /\ ctx = Background
    /\ calls = 0
    /\ wire = <<>>
    /\ replies = <<>>
    /\ waits = <<>>
    /\ result = NotReturned

\* the pure-function specifications are at rest
InitPure ==
    /\ boArgs = <<0, 0>>
    /\ boOut = <<>>
    /\ schArg = <<>>
    /\ schOut = <<>>
    /\ inv = <<>>

Init ==
    /\ InitChat
    /\ InitPure

(***************************************************************************)
(* Actions.                                                                *)
(***************************************************************************)
\* The caller invokes Chat: the model substitution and the head of attempt 0.
ChatCall ==
    /\ pc = "call"
    /\ op.name = "Chat"
    /\ req' = SubstituteModel(callerReq, client)
    /\ \E ctl \in LoopHead(0, lastErr, ctx) : Goto(ctl)
    /\ UNCHANGED <<client, callerReq, ctx, calls, wire, replies, op, pureVars>>

\* SimpleRequest is called: it builds the request and calls Chat with it; the
\* rest of it runs when Chat returns (AfterChat).
SimpleRequestCall ==
    /\ pc = "call"
    /\ op.name = "SimpleRequest"
    /\ callerReq' = ChatRequest("", "0",
                                SimpleRequestMessages(op.systemPrompt, op.userPrompt), <<>>)
    /\ req' = SubstituteModel(callerReq', client)
    /\ \E ctl \in LoopHead(0, lastErr, ctx) : Goto(ctl)
    /\ UNCHANGED <<client, ctx, calls, wire, replies, op, pureVars>>

\* RequestWithSchema is called: it generates the schema of the target's type,
\* returns the error of that, or builds the request and calls Chat with it.  A
\* generator that panics ends the goroutine.
RequestWithSchemaCall ==
    /\ pc = "call"
    /\ op.name = "RequestWithSchema"
    /\ LET gen == GenerateSchema(op.target[1])
       IN  IF gen.kind \in {"panic", "overflow"}
           THEN /\ pc' = "aborted"
                /\ opResult' = OpPanicked(opResult.value)
                /\ UNCHANGED <<callerReq, req, attempt, lastErr, result, waits>>
           ELSE IF SchemaFailed(gen)
           THEN /\ pc' = "aborted"
                /\ opResult' = OpReturned("", gen.err, opResult.value)
                /\ UNCHANGED <<callerReq, req, attempt, lastErr, result, waits>>
           ELSE /\ callerReq' = ChatRequest("", "0",
                        RequestWithSchemaMessages(op.systemPrompt, op.userPrompt),
                        gen.schema)
                /\ req' = SubstituteModel(callerReq', client)
                /\ \E ctl \in LoopHead(0, lastErr, ctx) : Goto(ctl)
    /\ UNCHANGED <<client, ctx, calls, wire, replies, op, pureVars>>

\* doRequest up to httpClient.Do: marshal the request, build the HTTP request,
\* hand it to the transport.  The two failures return to Chat at once.
DoRequest ==
    /\ pc = "doRequest"
    /\ calls' = calls + 1
    /\ IF MarshalFails(req)
       THEN /\ \E ctl \in AfterErr(Err("marshal", 0, "", <<>>), attempt, ctx) : Goto(ctl)
            /\ wire' = wire
       ELSE IF NewRequestFails(client)
       THEN /\ \E ctl \in AfterErr(Err("create", 0, "", <<>>), attempt, ctx) : Goto(ctl)
            /\ wire' = wire
       ELSE /\ wire' = Append(wire, Marshal(req))
            /\ pc' = "inflight"
            /\ UNCHANGED <<attempt, lastErr, result, waits, opResult>>
    /\ UNCHANGED <<client, callerReq, req, ctx, replies, op, pureVars>>

\* httpClient.Do returns, and Chat handles what it returned.
DoReturn ==
    /\ pc = "inflight"
    /\ \E out \in DoOutcomes :
        /\ replies' = Append(replies, out)
        /\ \E ctl \in (IF out.err # NilErr
                        THEN AfterErr(out.err, attempt, ctx)
                        ELSE AfterResp(out.resp, attempt, lastErr, ctx)) : Goto(ctl)
    /\ UNCHANGED <<client, callerReq, req, ctx, calls, wire, op, pureVars>>

\* The backoff timer fires while Chat waits in the select.
TimerFires ==
    /\ pc = "wait"
    /\ "timer" \in SelectReady(ctx.done, TRUE)
    /\ Goto(Ctl("doRequest", attempt, lastErr, result))
    /\ UNCHANGED <<client, callerReq, req, ctx, calls, wire, replies, op, pureVars>>

\* The caller cancels the context, or its deadline passes.  A Chat waiting in
\* the select is woken by ctx.Done() and returns ctx.Err().
Cancel ==
    /\ pc \notin {"done", "aborted"}
    /\ ~ctx.done
    /\ \E e \in {"context canceled", "context deadline exceeded"} :
        /\ ctx' = [done |-> TRUE, err |-> e, phase |-> pc, sends |-> Len(wire),
                   calls |-> calls]
        /\ IF pc = "wait" /\ "ctxDone" \in SelectReady(TRUE, FALSE)
           THEN Goto(Ctl("done", attempt, lastErr, Returned(ZeroChatResponse, CtxErr(ctx'))))
           ELSE UNCHANGED <<pc, attempt, lastErr, result, waits, opResult>>
    /\ UNCHANGED <<client, callerReq, req, calls, wire, replies, op, pureVars>>

Next ==
    \/ ChatCall
    \/ SimpleRequestCall
    \/ RequestWithSchemaCall
    \/ DoRequest
    \/ DoReturn
    \/ TimerFires
    \/ Cancel

Spec == Init /\ [][Next]_vars

\* Chat called by the caller, under the scheduling the runtime and the
\* environment give: a goroutine that can take its next step takes it (the
\* call, doRequest), every httpClient.Do returns, and every backoff timer
\* fires.  The caller is free to cancel or not.
InitLive == Init /\ op.name = "Chat"

NextLive == ChatCall \/ DoRequest \/ DoReturn \/ TimerFires \/ Cancel

Fairness ==
    /\ WF_vars(ChatCall)
    /\ WF_vars(DoRequest)
    /\ WF_vars(DoReturn)
    /\ WF_vars(TimerFires)

SpecLive == InitLive /\ [][NextLive]_vars /\ Fairness

(***************************************************************************)
(* backoff as a pure function: it is applied to two attempt indexes.       *)
(***************************************************************************)
InitBackoff ==
    /\ client = NewClient("http://host/v1", "test-key", "default-model", <<>>)
    /\ op = Op("Chat", "", "", <<>>)
    /\ opResult = OpPending(<<>>)
    /\ callerReq = ChatRequest("", "0", <<Message("user", "Hello")>>, <<>>)
    /\ req = callerReq
    /\ pc = "call"
    /\ attempt = 0
    /\ lastErr = NilErr
    /\ ctx = Background
    /\ calls = 0
    /\ wire = <<>>
    /\ replies = <<>>
    /\ waits = <<>>
    /\ result = NotReturned
    /\ boArgs \in (0..MaxBackoffIdx) \X (0..MaxBackoffIdx)
    /\ boOut = <<>>
    /\ schArg = <<>>
    /\ schOut = <<>>
    /\ inv = <<>>

BackoffCall ==
    /\ boOut = <<>>
    /\ boOut' = <<backoff(boArgs[1]), backoff(boArgs[2])>>
    /\ UNCHANGED <<boArgs, schArg, schOut, inv>>
    /\ UNCHANGED chatVars

NextBackoff == BackoffCall

SpecBackoff == InitBackoff /\ [][NextBackoff]_vars

(***************************************************************************)
(* Specification of the schema generator: GenerateSchema is applied to the *)
(* type of one instance.  The instances are structs of 1 .. MaxFields      *)
(* fields taken from the pool, pointers to them, and values that are no     *)
(* struct.                                                                 *)
(***************************************************************************)
InitSchema ==
    /\ client = NewClient("http://host/v1", "test-key", "default-model", <<>>)
    /\ op = Op("Chat", "", "", <<>>)
    /\ opResult = OpPending(<<>>)
    /\ callerReq = ChatRequest("", "0", <<Message("user", "Hello")>>, <<>>)
    /\ req = callerReq
    /\ pc = "call"
    /\ attempt = 0
    /\ lastErr = NilErr
    /\ ctx = Background
    /\ calls = 0
    /\ wire = <<>>
    /\ replies = <<>>
    /\ waits = <<>>
    /\ result = NotReturned
    /\ boArgs = <<0, 0>>
    /\ boOut = <<>>
    /\ schArg \in {<<t>> : t \in Instances}
    /\ schOut = <<>>
    /\ inv = <<>>

GenerateSchemaCall ==
    /\ schOut = <<>>
    /\ schOut' = <<GenerateSchema(schArg[1])>>
    /\ UNCHANGED <<boArgs, boOut, schArg, inv>>
    /\ UNCHANGED chatVars

NextSchema == GenerateSchemaCall

SpecSchema == InitSchema /\ [][NextSchema]_vars

(***************************************************************************)
(* Concurrent use: two goroutines call Chat on the same Client.  Each      *)
(* invocation has its own locals (req, attempt, lastErr), its own context  *)
(* and its own history; the Client is the one thing they share.  A step of *)
(* the system is a step of one of the invocations.                         *)
(***************************************************************************)
Invocations == {1, 2}

\* one invocation before its call
Invocation(r) ==
    [callerReq |-> r, req |-> r, pc |-> "call", attempt |-> 0, lastErr |-> NilErr,
     ctx |-> Background, calls |-> 0, wire |-> <<>>, replies |-> <<>>, waits |-> <<>>,
     result |-> NotReturned]

\* the answers of the server in the concurrent runs: a success, a rate limit,
\* a bad request (and the transport may fail)
ConcResponses ==
    {HTTPResponse(StatusOK, Body(TRUE, <<"c1">>)),
     HTTPResponse(StatusTooManyRequests, TextBody),
     HTTPResponse(400, TextBody)}

\* a retry counted in the client: every answer handled uses up one retry of
\* the budget the invocations share
ClientAfterAttempt_SharedBudget(c) == [c EXCEPT !.maxRetries = c.maxRetries - 1]

\* What an attempt of Chat leaves of the Client: Chat reads c.model and
\* c.maxRetries, doRequest reads c.baseURL, c.apiKey and c.httpClient, and
\* nothing is assigned to a field of c.
ClientAfterAttempt(c) == c

\* the invocation after a step that took Chat to ctl
Moved(v, ctl) ==
    [v EXCEPT !.pc = ctl.pc, !.attempt = ctl.attempt, !.lastErr = ctl.lastErr,
              !.result = ctl.result, !.waits = WaitsAfterOf(ctl, v.waits)]

InitConc ==
    /\ client \in {NewClient("http://host/v1", "test-key", "default-model",
                              <<WithMaxRetries(n)>>) : n \in 0..MaxConcRetries}
    /\ inv \in [Invocations ->
                  {Invocation(ChatRequest(m, "0", <<Message("user", "Hello")>>, <<>>)) :
                      m \in RequestModels}]
    /\ op = Op("Chat", "", "", <<>>)
    /\ opResult = OpPending(<<>>)
    /\ callerReq = ZeroChatRequest
    /\ req = callerReq
    /\ pc = "call"
    /\ attempt = 0
    /\ lastErr = NilErr
    /\ ctx = Background
    /\ calls = 0
    /\ wire = <<>>
    /\ replies = <<>>
    /\ waits = <<>>
    /\ result = NotReturned
    /\ boArgs = <<0, 0>>
    /\ boOut = <<>>
    /\ schArg = <<>>
    /\ schOut = <<>>

\* the variables the concurrent runs leave alone
restVars == <<callerReq, req, pc, attempt, lastErr, ctx, calls, wire, replies, waits,
              result, op, opResult, boArgs, boOut, schArg, schOut>>

ConcChatCall(i) ==
    /\ inv[i].pc = "call"
    /\ \E ctl \in LoopHead(0, inv[i].lastErr, inv[i].ctx) :
          inv' = [inv EXCEPT ![i] =
                    Moved([inv[i] EXCEPT !.req = SubstituteModel(inv[i].callerReq, client)],
                          ctl)]
    /\ UNCHANGED client
    /\ UNCHANGED restVars

ConcDoRequest(i) ==
    /\ inv[i].pc = "doRequest"
    /\ LET v == [inv[i] EXCEPT !.calls = inv[i].calls + 1]
       IN  IF MarshalFails(v.req)
           THEN \E ctl \in AfterErr(Err("marshal", 0, "", <<>>), v.attempt, v.ctx) :
                    inv' = [inv EXCEPT ![i] = Moved(v, ctl)]
           ELSE IF NewRequestFails(client)
           THEN \E ctl \in AfterErr(Err("create", 0, "", <<>>), v.attempt, v.ctx) :
                    inv' = [inv EXCEPT ![i] = Moved(v, ctl)]
           ELSE inv' = [inv EXCEPT ![i] =
                          [v EXCEPT !.wire = Append(v.wire, Marshal(v.req)),
                                    !.pc = "inflight"]]
    /\ UNCHANGED client
    /\ UNCHANGED restVars

ConcDoReturn(i) ==
    /\ inv[i].pc = "inflight"
    /\ \E out \in DoOutcomesOf(inv[i].ctx, inv[i].wire, ConcResponses) :
        LET v == [inv[i] EXCEPT !.replies = Append(inv[i].replies, out)]
        IN  \E ctl \in (IF out.err # NilErr
                         THEN AfterErr(out.err, v.attempt, v.ctx)
                         ELSE AfterResp(out.resp, v.attempt, v.lastErr, v.ctx)) :
                inv' = [inv EXCEPT ![i] = Moved(v, ctl)]
    /\ client' = ClientAfterAttempt(client)
    /\ UNCHANGED restVars

ConcTimerFires(i) ==
    /\ inv[i].pc = "wait"
    /\ "timer" \in SelectReady(inv[i].ctx.done, TRUE)
    /\ inv' = [inv EXCEPT ![i] =
                  Moved(inv[i], Ctl("doRequest", inv[i].attempt, inv[i].lastErr,
                                    inv[i].result))]
    /\ UNCHANGED client
    /\ UNCHANGED restVars

ConcCancel(i) ==
    /\ inv[i].pc # "done"
    /\ ~inv[i].ctx.done
    /\ \E e \in {"context canceled"} :
        LET c == [done |-> TRUE, err |-> e, phase |-> inv[i].pc,
                  sends |-> Len(inv[i].wire), calls |-> inv[i].calls]
            v == [inv[i] EXCEPT !.ctx = c]
        IN  IF v.pc = "wait" /\ "ctxDone" \in SelectReady(TRUE, FALSE)
            THEN inv' = [inv EXCEPT ![i] =
                           Moved(v, Ctl("done", v.attempt, v.lastErr,
                                        Returned(ZeroChatResponse, CtxErr(c))))]
            ELSE inv' = [inv EXCEPT ![i] = v]
    /\ UNCHANGED client
    /\ UNCHANGED restVars

NextConc ==
    \E i \in Invocations :
        \/ ConcChatCall(i)
        \/ ConcDoRequest(i)
        \/ ConcDoReturn(i)
        \/ ConcTimerFires(i)
        \/ ConcCancel(i)

SpecConc == InitConc /\ [][NextConc]_vars

(***************************************************************************)
(* Vocabulary of the properties.                                           *)
(***************************************************************************)
IsAnswer(o) == o.err = NilErr
Is5xx(o) == IsAnswer(o) /\ o.resp.StatusCode >= 500 /\ o.resp.StatusCode <= 599
IsRetryableStatus(o) == Is5xx(o) \/ (IsAnswer(o) /\ o.resp.StatusCode = 429)
IsSuccess(o) ==
    /\ IsAnswer(o)
    /\ o.resp.StatusCode = 200
    /\ o.resp.Body.valid
    /\ Len(o.resp.Body.choices) >= 1
IsZeroChoices(o) ==
    /\ IsAnswer(o)
    /\ o.resp.StatusCode = 200
    /\ o.resp.Body.valid
    /\ Len(o.resp.Body.choices) = 0
\* a status that is neither a success (2xx) nor retryable (429, 5xx)
IsTerminalStatus(o) ==
    /\ IsAnswer(o)
    /\ o.resp.StatusCode >= 300
    /\ o.resp.StatusCode < 500
    /\ o.resp.StatusCode # 429
\* the send failed because the caller's context was cancelled or timed out
\* while the request was in flight
IsCancellation(o) == o.err.type = "do" /\ o.err.wraps # <<>> /\ ctx.phase = "inflight"
\* every doRequest so far reached the transport
EveryCallSent == calls = Len(wire)
SendsSoFar == Len(wire)

(***************************************************************************)
(* C1.  For every k with 0 <= k <= maxRetries: when the first k sends are  *)
(* answered with 429 or 5xx, Chat is still going (it has not returned, as  *)
(* long as the context is not done), and when the (k+1)-th send is then    *)
(* answered with a 200 carrying at least one choice, Chat has returned     *)
(* that response without error after exactly k+1 sends.                    *)
(***************************************************************************)
C1_RetryThenSuccess ==
    \A k \in 0..Len(replies) :
        (k <= client.maxRetries /\ \A i \in 1..k : IsRetryableStatus(replies[i])) =>
            /\ (Len(replies) = k /\ EveryCallSent /\ ~ctx.done) => ~result.returned
            /\ (Len(replies) > k /\ IsSuccess(replies[k + 1])) =>
                    /\ pc = "done"
                    /\ result = Returned([Choices |-> replies[k + 1].resp.Body.choices], NilErr)
                    /\ SendsSoFar = k + 1
                    /\ Len(replies) = k + 1

\* success at the last attempt of the default budget: 429, 500, 503, then 200
C1_Witness ==
    /\ client.maxRetries = DefaultMaxRetries
    /\ Len(replies) = DefaultMaxRetries + 1
    /\ replies[1].resp.StatusCode = 429
    /\ \A i \in 2..DefaultMaxRetries : Is5xx(replies[i])
    /\ IsSuccess(replies[DefaultMaxRetries + 1])
    /\ result.returned /\ result.err = NilErr

(***************************************************************************)
(* C2.  With maxRetries = M >= 0, every send answered with a 5xx status    *)
(* and the context never done, Chat returns only after exactly M+1 sends,  *)
(* and then with the max-retries-exceeded error.                           *)
(***************************************************************************)
C2_ExhaustionAfterMPlus1 ==
    (/\ client.maxRetries >= 0
     /\ ~ctx.done
     /\ EveryCallSent
     /\ \A i \in 1..Len(replies) : Is5xx(replies[i]))
    => IF result.returned
       THEN /\ SendsSoFar = client.maxRetries + 1
            /\ Len(replies) = client.maxRetries + 1
            /\ result.err.type = "maxretries"
       ELSE SendsSoFar <= client.maxRetries + 1

\* the default client after four 5xx answers
C2_Witness ==
    /\ client.maxRetries = DefaultMaxRetries
    /\ ~ctx.done
    /\ Len(replies) = 4
    /\ \A i \in 1..4 : Is5xx(replies[i])
    /\ result.returned
    /\ result.err.type = "maxretries"

(***************************************************************************)
(* C3.  A send that fails because the caller's context was cancelled or    *)
(* timed out ends Chat at once with the cancellation error: the error      *)
(* returned is the cancellation, never retry exhaustion, at every attempt  *)
(* index.                                                                  *)
(***************************************************************************)
C3_CancellationIsFatal ==
    \A i \in 1..Len(replies) :
        IsCancellation(replies[i]) =>
            /\ pc = "done"
            /\ result.returned
            /\ result.err \in {replies[i].err, CtxErr(ctx)}
            /\ result.err.type # "maxretries"

(***************************************************************************)
(* C4.  A context that ends while Chat waits out the backoff before a      *)
(* retry makes Chat return at once with the context's error: no send and   *)
(* no doRequest happens after it.                                          *)
(***************************************************************************)
C4_CancelDuringBackoff ==
    (ctx.done /\ ctx.phase = "wait") =>
        /\ pc = "done"
        /\ result = Returned(ZeroChatResponse, CtxErr(ctx))
        /\ SendsSoFar = ctx.sends
        /\ calls = ctx.calls

\* the deadline passes during the wait before the second retry
C4_Witness ==
    /\ ctx.done /\ ctx.phase = "wait" /\ ctx.err = "context deadline exceeded"
    /\ attempt = 2
    /\ Len(waits) = 1
    /\ SendsSoFar = 2
    /\ result.returned

(***************************************************************************)
(* C5.  An answer whose status is neither a success nor 429 nor 5xx ends   *)
(* Chat right after that send with an error carrying the status: it is     *)
(* the last send, and no wait follows it.                                  *)
(***************************************************************************)
C5_TerminalStatusNotRetried ==
    \A i \in 1..Len(replies) :
        IsTerminalStatus(replies[i]) =>
            /\ i = Len(replies)
            /\ SendsSoFar = i
            /\ calls = i
            /\ pc = "done"
            /\ result = Returned(ZeroChatResponse,
                                 Err("api", replies[i].resp.StatusCode, "", <<>>))
            /\ attempt = i - 1
            /\ Len(waits) = i - 1

\* a 404 at the first retry of the default client, with two retries left
C5_Witness ==
    /\ client.maxRetries = DefaultMaxRetries
    /\ Len(replies) = 2
    /\ replies[2].err = NilErr /\ replies[2].resp.StatusCode = 404
    /\ result.returned
    /\ result.err.status = 404

(***************************************************************************)
(* C6.  A request that cannot be serialized makes Chat fail at its first   *)
(* attempt with the serialization error: one doRequest, no backoff wait,   *)
(* and the error returned is not retry exhaustion.                         *)
(***************************************************************************)
C6_SerializationIsFatal ==
    (MarshalFails(req) /\ calls >= 1) =>
        /\ calls = 1
        /\ waits = <<>>
        /\ pc = "done"
        /\ result.returned
        /\ result.err.type = "marshal"

(***************************************************************************)
(* C7.  A Chat that returns without error returns at least one choice; a   *)
(* 200 that decodes to zero choices ends Chat right after that send with   *)
(* an error, whatever budget remains.                                      *)
(***************************************************************************)
C7_AtLeastOneChoice ==
    /\ (result.returned /\ result.err = NilErr) => Len(result.resp.Choices) >= 1
    /\ \A i \in 1..Len(replies) :
        IsZeroChoices(replies[i]) =>
            /\ i = Len(replies)
            /\ SendsSoFar = i
            /\ pc = "done"
            /\ result.returned
            /\ result.err.type = "nochoices"

\* zero choices at the first retry of the default client, with two retries left
C7_Witness ==
    /\ client.maxRetries = DefaultMaxRetries
    /\ Len(replies) = 2
    /\ IsZeroChoices(replies[2])
    /\ result.returned
    /\ result.err.type = "nochoices"

(***************************************************************************)
(* C8.  Every send of a Chat invocation carries the client's default       *)
(* model when the caller's request has an empty Model, and the caller's    *)
(* Model when it is not empty.                                             *)
(***************************************************************************)
C8_WireModel ==
    \A i \in 1..Len(wire) :
        wire[i].model = (IF callerReq.Model = "" THEN client.model ELSE callerReq.Model)

\* a retry of a request without a model, sent with the default model
C8_Witness ==
    /\ callerReq.Model = ""
    /\ client.model # ""
    /\ Len(wire) = 3
    /\ wire[3].model = client.model

C10_BackoffPowersAndMonotone ==
    boOut # <<>> =>
        /\ boArgs[1] <= 3 => InSeconds(boOut[1]) = Pow2(boArgs[1])
        /\ boArgs[1] <= boArgs[2] => LessEq64(boOut[1], boOut[2])

(***************************************************************************)
(* Vocabulary of the schema properties.                                    *)
(***************************************************************************)
Range(seq) == {seq[i] : i \in 1..Len(seq)}

\* GenerateSchema has returned
Generated == schOut # <<>>

\* the struct GenerateSchema works on: the instance's type, or what it points to
SchType == IF schArg[1].kind = "ptr" THEN Elem(schArg[1]) ELSE schArg[1]

\* the names listed under "required" in a schema
Required(schema) ==
    IF "required" \in DOMAIN schema THEN Range(schema.required) ELSE {}

\* a field that is neither skipped nor embedded: it gets a property of its own
IsNamedField(f) == f.PkgPath = "" /\ ~f.Anonymous /\ f.json # <<"-">>

\* an embedded field that is not skipped
IsEmbeddedField(f) == f.PkgPath = "" /\ f.Anonymous

\* the name of a field in the serialized form
ExternalName(f) == IF f.json[1] = "" THEN f.Name ELSE f.json[1]

\* the serialization tag carries the omit-if-empty marker among its options
HasOmitEmpty(f) == \E i \in 2..Len(f.json) : f.json[i] = "omitempty"

\* through pointers
RECURSIVE Deref(_)
Deref(t) == IF t.kind = "ptr" THEN Deref(Elem(t)) ELSE t

\* the external names of the fields without marker, of a struct and of the
\* structs it embeds
RECURSIVE UnmarkedNames(_)
UnmarkedNames(t) ==
    LET fs == Range(t.fields)
    IN  {ExternalName(f) : f \in {g \in fs : IsNamedField(g) /\ ~HasOmitEmpty(g)}}
            \cup UNION {UnmarkedNames(Deref(f.Type)) : f \in {g \in fs : IsEmbeddedField(g)}}

PersonSchema ==
    [type |-> "object",
     properties |-> ("name" :> [type |-> "string"]) @@ ("age" :> [type |-> "integer"]),
     required |-> <<"name">>]

\* the non-skipped fields that get a property in the schema of a struct: its
\* own and those of the structs it embeds
RECURSIVE FlatFields(_)
FlatFields(t) ==
    LET fs == Range(t.fields)
    IN  {g \in fs : IsNamedField(g)}
            \cup UNION {FlatFields(Deref(f.Type)) : f \in {g \in fs : IsEmbeddedField(g)}}

\* no two of these fields share an external name
DistinctExternalNames(t) ==
    \A f, g \in FlatFields(t) : ExternalName(f) = ExternalName(g) => f = g

(***************************************************************************)
(* C16.  In the object schema generated for a struct, the external name of *)
(* a non-skipped field is listed in required if and only if the field's    *)
(* serialization tag carries no omit-if-empty marker (fields are told      *)
(* apart by their external names: of two fields that share one, the name   *)
(* is listed if and only if one of them carries no marker); Name string    *)
(* (tag name) and Age int (tag age,omitempty) give properties name:        *)
(* string, age: integer and required = [name].                             *)
(***************************************************************************)
C16_RequiredIffNoOmitEmpty ==
    (Generated /\ schOut[1].kind = "ok") =>
        /\ DistinctExternalNames(SchType) =>
              \A f \in {g \in Range(SchType.fields) : IsNamedField(g)} :
                  ExternalName(f) \in Required(schOut[1].schema[1]) <=> ~HasOmitEmpty(f)
        /\ Required(schOut[1].schema[1]) = UnmarkedNames(SchType)
        /\ SchType = PersonType => schOut[1].schema[1] = PersonSchema

\* the schema of the struct with Name and Age
C16_Witness ==
    /\ Generated
    /\ schArg[1] = PersonType
    /\ schOut[1].kind = "ok"
    /\ schOut[1].schema[1].required = <<"name">>
    /\ DOMAIN schOut[1].schema[1].properties = {"name", "age"}

\* an unsupported type occurs somewhere in the type graph, skipped fields included
RECURSIVE OccursAnywhere(_)
OccursAnywhere(t) ==
    \/ t.kind \in {"map", "func", "chan", "interface"}
    \/ t.elem # <<>> /\ OccursAnywhere(t.elem[1])
    \/ \E i \in 1..Len(t.fields) : OccursAnywhere(t.fields[i].Type)

\* a field the generator does not skip
IsVisited(f) == f.PkgPath = "" /\ (f.Anonymous \/ f.json # <<"-">>)

\* an unsupported type occurs where the generator goes: not below a skipped field
RECURSIVE OccursVisited(_)
OccursVisited(t) ==
    \/ t.kind \in {"map", "func", "chan", "interface"}
    \/ t.elem # <<>> /\ OccursVisited(t.elem[1])
    \/ \E i \in 1..Len(t.fields) : IsVisited(t.fields[i]) /\ OccursVisited(t.fields[i].Type)

\* an unsupported type met with no named field between it and this type: the
\* type itself, what it points to, its elements, or an embedded field's type
RECURSIVE OccursImmediately(_)
OccursImmediately(t) ==
    \/ t.kind \in {"map", "func", "chan", "interface"}
    \/ t.elem # <<>> /\ OccursImmediately(t.elem[1])
    \/ \E i \in 1..Len(t.fields) :
          IsEmbeddedField(t.fields[i]) /\ OccursImmediately(t.fields[i].Type)

\* the fields of the type graph the generator does not skip
RECURSIVE VisitedFields(_)
VisitedFields(t) ==
    (IF t.elem # <<>> THEN VisitedFields(t.elem[1]) ELSE {})
        \cup UNION {{f} \cup VisitedFields(f.Type) : f \in {g \in Range(t.fields) : IsVisited(g)}}

\* the field named last in the path an error gives, "" when it names none
RECURSIVE InnermostField(_)
InnermostField(err) ==
    IF err.type # "field" THEN ""
    ELSE IF err.wraps[1].type = "field" THEN InnermostField(err.wraps[1])
    ELSE err.cause

\* what an error goes back to
RECURSIVE RootCause(_)
RootCause(err) == IF err.wraps = <<>> THEN err ELSE RootCause(err.wraps[1])

\* GenerateSchema was given a struct or a pointer to one
IsStruct == schArg[1].kind # "nil" /\ SchType.kind = "struct"

(***************************************************************************)
(* C17.  As claimed: schema generation fails with an error, and produces   *)
(* no schema, whenever an unsupported type (map, func, chan, interface)    *)
(* occurs anywhere in the type graph of the struct, and the error names    *)
(* the immediate field where the type occurred.                            *)
(***************************************************************************)
C17_UnsupportedAnywhereFails ==
    (Generated /\ IsStruct /\ OccursAnywhere(SchType)) =>
        /\ schOut[1].kind = "error"
        /\ schOut[1].schema = <<>>
        /\ InnermostField(schOut[1].err) # ""

(***************************************************************************)
(* C17, amended.  Schema generation produces no schema whenever an         *)
(* unsupported type occurs in the type graph outside the skipped fields    *)
(* (unexported fields and fields tagged "-" are not looked at).  The error *)
(* returned goes back to the unsupported type and names the immediate      *)
(* field: the last field of its path is a named field of unsupported type, *)
(* of pointer to or slice of one, or of a struct that embeds one.  It      *)
(* names no field only when the unsupported type is reached from the       *)
(* struct given through embedded fields alone.                             *)
(***************************************************************************)
C17_UnsupportedVisitedFails ==
    (Generated /\ IsStruct) =>
        /\ OccursVisited(SchType) => schOut[1].kind # "ok" /\ schOut[1].schema = <<>>
        /\ schOut[1].kind = "error" =>
              /\ OccursVisited(SchType)
              /\ RootCause(schOut[1].err).type = "unsupported"
              /\ RootCause(schOut[1].err).cause \in {"map", "func", "chan", "interface"}
              /\ IF OccursImmediately(SchType)
                 THEN schOut[1].err.type \in {"unsupported", "field"}
                 ELSE \E f \in VisitedFields(SchType) :
                        /\ ~f.Anonymous
                        /\ f.Name = InnermostField(schOut[1].err)
                        /\ OccursImmediately(f.Type)

\* a map two named fields down: the error names Addr, then Meta
C17_Witness ==
    /\ Generated
    /\ schArg[1] = PtrTo(StructOf("T", <<FName, FAddr>>))
    /\ schOut[1].kind = "error"
    /\ schOut[1].err.cause = "Addr"
    /\ InnermostField(schOut[1].err) = "Meta"
    /\ RootCause(schOut[1].err).cause = "map"

\* the exported embedded fields of the struct given
EmbeddedFields == {f \in Range(SchType.fields) : IsEmbeddedField(f)}

\* the schema of an embedded field's type, generated on its own
EmbeddedSchema(f) == generateSchemaForType(f.Type, 1)

(***************************************************************************)
(* C18.  For a struct with exported embedded fields, of whatever kind the  *)
(* embedded types are, schema generation ends with a schema or with a      *)
(* returned error, never abnormally; in the schema, the properties of each *)
(* embedded field's schema are among the parent's properties and its       *)
(* required names among the parent's required names.                       *)
(***************************************************************************)
C18_EmbeddedMergedOrError ==
    (Generated /\ IsStruct /\ EmbeddedFields # {}) =>
        /\ schOut[1].kind \in {"ok", "error"}
        /\ schOut[1].kind = "ok" =>
              \A f \in EmbeddedFields :
                  /\ EmbeddedSchema(f).kind = "ok"
                  /\ "properties" \in DOMAIN EmbeddedSchema(f).schema[1]
                  /\ DOMAIN EmbeddedSchema(f).schema[1].properties
                        \subseteq DOMAIN schOut[1].schema[1].properties
                  /\ Required(EmbeddedSchema(f).schema[1])
                        \subseteq Required(schOut[1].schema[1])

\* the merge where it works: an embedded struct beside a named field
C18_MergeOfEmbeddedStruct ==
    (Generated /\ schArg[1] = StructOf("T", <<FAge, FInner>>)) =>
        schOut[1] = GenOK([type |-> "object",
                           properties |-> ("age" :> [type |-> "integer"])
                                            @@ ("city" :> [type |-> "string"])
                                            @@ ("zip" :> [type |-> "string"]),
                           required |-> <<"city">>])

\* an embedded named string type: the generator panics
C18_PanicOnEmbeddedNonStruct ==
    (Generated /\ schArg[1] = StructOf("T", <<FLabel>>)) => schOut[1] = GenPanic

(***************************************************************************)
(* Vocabulary of the wrappers' properties.                                 *)
(***************************************************************************)
\* Chat has returned a response and no error
ChatSucceeded == result.returned /\ result.err = NilErr

\* the method invoked has returned no error
OpSucceeded == opResult.returned /\ opResult.err = NilErr

\* the content of the first choice of the last answer
LastFirstContent == replies[Len(replies)].resp.Body.choices[1]

(***************************************************************************)
(* C11.  Every request SimpleRequest sends holds exactly one message, role *)
(* user with the user prompt, when the system prompt is empty, and exactly *)
(* two, role system with the system prompt and then role user with the     *)
(* user prompt, when it is not; on success SimpleRequest returns the       *)
(* content of the first choice of the answer.                              *)
(***************************************************************************)
C11_SimpleRequestMessagesAndContent ==
    op.name = "SimpleRequest" =>
        /\ \A i \in 1..Len(wire) :
              wire[i].messages =
                  IF op.systemPrompt = ""
                  THEN <<[Role |-> "user", Content |-> op.userPrompt]>>
                  ELSE <<[Role |-> "system", Content |-> op.systemPrompt],
                         [Role |-> "user", Content |-> op.userPrompt]>>
        /\ OpSucceeded =>
              /\ replies # <<>>
              /\ IsSuccess(replies[Len(replies)])
              /\ opResult.content = LastFirstContent

\* a system prompt, a retry, and an answer of two choices: the first is returned
C11_Witness ==
    /\ op.name = "SimpleRequest"
    /\ op.systemPrompt # ""
    /\ Len(wire) = 2
    /\ Len(wire[2].messages) = 2
    /\ OpSucceeded
    /\ Len(replies[2].resp.Body.choices) = 2
    /\ opResult.content = JohnJSON

\* no system prompt: one message, and the content comes back
C11_WitnessNoSystemPrompt ==
    /\ op.name = "SimpleRequest"
    /\ op.systemPrompt = ""
    /\ Len(wire) = 1
    /\ Len(wire[1].messages) = 1
    /\ OpSucceeded

(***************************************************************************)
(* C12.  When the schema generation for the target's type fails,           *)
(* RequestWithSchema returns that error and nothing is ever sent in the    *)
(* invocation: no doRequest, no request on the wire.                       *)
(***************************************************************************)
C12_SchemaFailureSendsNothing ==
    (op.name = "RequestWithSchema" /\ GenerateSchema(op.target[1]).kind = "error") =>
        /\ calls = 0
        /\ wire = <<>>
        /\ ~result.returned
        /\ pc # "call" =>
              /\ pc = "aborted"
              /\ opResult.returned
              /\ opResult.err = GenerateSchema(op.target[1]).err

\* the target has a map field: the error names it, nothing was sent
C12_Witness ==
    /\ op.name = "RequestWithSchema"
    /\ pc = "aborted"
    /\ opResult.returned
    /\ opResult.err.type = "field"
    /\ opResult.err.cause = "Meta"
    /\ wire = <<>>

(***************************************************************************)
(* C13.  When Chat succeeds in RequestWithSchema: a first choice whose     *)
(* content is valid JSON matching the target's shape is stored in the      *)
(* struct the target points to and no error is returned; a content that is *)
(* malformed, or does not fit the target, gives an unmarshal error.  The   *)
(* error comes after Chat's success: Chat has returned the successful      *)
(* answer of the last send, and nothing is sent after it.                  *)
(***************************************************************************)
C13_UnmarshalAfterChat ==
    (op.name = "RequestWithSchema" /\ ChatSucceeded) =>
        /\ pc = "done"
        /\ opResult.returned
        /\ Len(wire) = Len(replies)
        /\ IsSuccess(replies[Len(replies)])
        /\ \A i \in 1..(Len(replies) - 1) : ~IsSuccess(replies[i])
        /\ (op.target[1].kind = "ptr" /\ LastFirstContent = JohnJSON) =>
              /\ opResult.err = NilErr
              /\ opResult.value = <<[Name |-> "John", Age |-> 35]>>
        /\ LastFirstContent \in {"c1", WrappedJSON} =>
              /\ opResult.err.type = "unmarshal"
              /\ opResult.err.cause = "syntax" \/ op.target[1].kind # "ptr"
              /\ opResult.value = <<[Name |-> "", Age |-> 0]>>
        /\ LastFirstContent = OldJohnJSON => opResult.err.type = "unmarshal"
        /\ op.target[1].kind # "ptr" =>
              /\ opResult.err.type = "unmarshal"
              /\ opResult.value = <<[Name |-> "", Age |-> 0]>>

\* a retry, then valid JSON: the struct is filled
C13_Witness ==
    /\ op.name = "RequestWithSchema"
    /\ ChatSucceeded
    /\ Len(wire) = 2
    /\ OpSucceeded
    /\ opResult.value[1].Name = "John"
    /\ opResult.value[1].Age = 35

\* Chat succeeds with a content that is no JSON: the unmarshal error
C13_WitnessMalformed ==
    /\ op.name = "RequestWithSchema"
    /\ op.target[1].kind = "ptr"
    /\ ChatSucceeded
    /\ LastFirstContent = WrappedJSON
    /\ opResult.err = Err("unmarshal", 0, "syntax", <<>>)

(***************************************************************************)
(* C14.  Every request RequestWithSchema sends holds exactly two messages, *)
(* role system with the system prompt, empty or not, then role user with   *)
(* the user prompt, and carries the schema generated for the target in its *)
(* schema field.                                                           *)
(***************************************************************************)
C14_TwoMessagesAndSchema ==
    op.name = "RequestWithSchema" =>
        \A i \in 1..Len(wire) :
            /\ wire[i].messages = <<[Role |-> "system", Content |-> op.systemPrompt],
                                    [Role |-> "user", Content |-> op.userPrompt]>>
            /\ wire[i].json_schema = GenerateSchema(op.target[1]).schema
            /\ wire[i].json_schema = <<PersonSchema>>

\* an empty system prompt is sent as a system message, with the schema
C14_Witness ==
    /\ op.name = "RequestWithSchema"
    /\ op.systemPrompt = ""
    /\ Len(wire) = 2
    /\ wire[2].messages[1] = [Role |-> "system", Content |-> ""]
    /\ wire[2].json_schema = <<PersonSchema>>

(***************************************************************************)
(* C19.  Within one Chat invocation no wait precedes attempt 0, and the    *)
(* doRequest of attempt n >= 1 starts only after n completed waits, the    *)
(* i-th of them of backoff(i-1) = 2^(i-1) seconds: 1s, 2s, 4s, ... in that *)
(* order.  No wait follows the final attempt: once Chat has returned, the  *)
(* completed waits are one fewer than the attempts made.                   *)
(***************************************************************************)
C19_WaitsBetweenAttempts ==
    /\ \A i \in 1..Len(waits) :
          waits[i] = backoff(i - 1) /\ InSeconds(waits[i]) = Pow2(i - 1)
    /\ pc \in {"doRequest", "inflight"} => Len(waits) = attempt
    /\ pc = "doRequest" => calls = attempt
    /\ pc = "inflight" => calls = attempt + 1
    /\ pc = "wait" => attempt >= 1 /\ calls = attempt /\ Len(waits) = attempt - 1
    /\ pc = "done" => Len(waits) = (IF calls = 0 THEN 0 ELSE calls - 1)

\* four attempts, three waits of 1s, 2s and 4s, and Chat has returned
C19_Witness ==
    /\ pc = "done"
    /\ calls = 4
    /\ Len(waits) = 3
    /\ InSeconds(waits[1]) = 1
    /\ InSeconds(waits[2]) = 2
    /\ InSeconds(waits[3]) = 4

(***************************************************************************)
(* C20.  When Chat returns "max retries exceeded" after at least one       *)
(* attempt, whatever transport errors and retryable statuses the attempts  *)
(* met, the error wraps the cause of the last attempt: the error           *)
(* httpClient.Do returned for the last send, or "HTTP <status>" with the   *)
(* status of the last answer; never the cause of an earlier attempt.       *)
(***************************************************************************)
C20_WrapsLastCause ==
    (result.returned /\ result.err.type = "maxretries" /\ calls >= 1
        /\ Len(replies) = calls) =>
        LET last == replies[Len(replies)]
        IN  /\ Len(result.err.wraps) = 1
            /\ IF last.err # NilErr
               THEN result.err.wraps[1] = last.err
               ELSE /\ result.err.wraps[1].type = "http"
                    /\ result.err.wraps[1].status = last.resp.StatusCode
                    /\ IsRetryableStatus(last)

\* a network error, then 503, then 429: the error wraps "HTTP 429"
C20_Witness ==
    /\ result.returned
    /\ result.err.type = "maxretries"
    /\ Len(replies) = 3
    /\ replies[1].err = DoNetErr
    /\ IsAnswer(replies[2]) /\ replies[2].resp.StatusCode = 503
    /\ IsAnswer(replies[3]) /\ replies[3].resp.StatusCode = 429
    /\ result.err.wraps[1].type = "http"
    /\ result.err.wraps[1].status = 429

\* a status, then a network error last: the error wraps the network error
C20_WitnessTransportLast ==
    /\ result.returned
    /\ result.err.type = "maxretries"
    /\ Len(replies) = 2
    /\ IsAnswer(replies[1]) /\ replies[1].resp.StatusCode = 500
    /\ result.err.wraps[1] = DoNetErr

(***************************************************************************)
(* Vocabulary of concurrent use.                                           *)
(***************************************************************************)
\* the invocation has returned
Done(v) == v.pc = "done" /\ v.result.returned

\* the attempt counter and the waits of an invocation follow its own attempts
OwnCounter(v) ==
    /\ v.calls <= client.maxRetries + 1
    /\ Len(v.wire) <= v.calls
    /\ Len(v.replies) <= Len(v.wire)
    /\ v.pc = "doRequest" => v.calls = v.attempt
    /\ v.pc = "inflight" => v.calls = v.attempt + 1
    /\ v.pc \in {"doRequest", "inflight"} => Len(v.waits) = v.attempt
    /\ v.pc = "wait" => v.calls = v.attempt /\ Len(v.waits) = v.attempt - 1
    /\ \A k \in 1..Len(v.waits) : InSeconds(v.waits[k]) = Pow2(k - 1)

\* the outcome of an invocation follows from the answers to its own sends
OwnOutcome(v) ==
    Done(v) =>
        /\ v.result.err = NilErr =>
              /\ v.replies # <<>>
              /\ IsSuccess(v.replies[Len(v.replies)])
              /\ v.result.resp.Choices = v.replies[Len(v.replies)].resp.Body.choices
        /\ v.result.err.type = "maxretries" =>
              /\ v.calls = client.maxRetries + 1
              /\ \A k \in 1..Len(v.replies) :
                    v.replies[k].err # NilErr \/ IsRetryableStatus(v.replies[k])
        /\ v.result.err.type = "api" =>
              v.result.err.status = v.replies[Len(v.replies)].resp.StatusCode

\* two invocations given the same request, the same answers and the same
\* context end the same way, after the same sends and waits
SameRun(v, w) ==
    (Done(v) /\ Done(w) /\ v.callerReq = w.callerReq /\ v.replies = w.replies
        /\ v.ctx = w.ctx) =>
        /\ v.result = w.result
        /\ v.wire = w.wire
        /\ v.calls = w.calls
        /\ v.waits = w.waits

(***************************************************************************)
(* C15.  For every interleaving of two Chat invocations on one Client:     *)
(* each invocation has its own attempt counter and backoff sequence, the   *)
(* number of its sends and its outcome follow from the answers to its own  *)
(* sends (two invocations given the same request, answers and context end  *)
(* the same way, whatever the other one met), and no step of an invocation *)
(* changes the client's configuration: base URL, credential, default       *)
(* model, maxRetries, transport.                                           *)
(***************************************************************************)
C15_ConcurrentInvocationsIndependent ==
    /\ [](\A i \in Invocations : OwnCounter(inv[i]) /\ OwnOutcome(inv[i]))
    /\ [](\A i, j \in Invocations : SameRun(inv[i], inv[j]))
    /\ [][client' = client]_vars

\* interleaved: the first invocation met a 429 and then a success, the second
\* two network errors; the first succeeded, the second used up its attempts
C15_Witness ==
    /\ client.maxRetries = 1
    /\ Done(inv[1]) /\ Done(inv[2])
    /\ Len(inv[1].replies) = 2
    /\ inv[1].replies[1].resp.StatusCode = 429
    /\ inv[1].result.err = NilErr
    /\ Len(inv[2].replies) = 2
    /\ inv[2].replies[1].err = DoNetErr
    /\ inv[2].replies[2].err = DoNetErr
    /\ inv[2].result.err.type = "maxretries"

\* both invocations were given the same and ended the same
C15_WitnessSameRun ==
    /\ Done(inv[1]) /\ Done(inv[2])
    /\ inv[1].callerReq = inv[2].callerReq
    /\ inv[1].replies = inv[2].replies
    /\ Len(inv[1].replies) = 2
    /\ inv[1].ctx = inv[2].ctx
    /\ inv[1].result = inv[2].result

(***************************************************************************)
(* C21.  Chat returns without error only if the answer to its last send    *)
(* had status exactly 200 and decoded to at least one choice.  An answer   *)
(* with any other status that is not retried, the 2xx statuses 201 and 204 *)
(* included, is the last one: Chat returns an API error carrying that      *)
(* status, with no further send.                                           *)
(***************************************************************************)
C21_OnlyStatus200Succeeds ==
    /\ (result.returned /\ result.err = NilErr) =>
          /\ replies # <<>>
          /\ IsAnswer(replies[Len(replies)])
          /\ replies[Len(replies)].resp.StatusCode = 200
          /\ replies[Len(replies)].resp.Body.valid
          /\ Len(replies[Len(replies)].resp.Body.choices) >= 1
          /\ result.resp.Choices = replies[Len(replies)].resp.Body.choices
    /\ \A i \in 1..Len(replies) :
          (/\ IsAnswer(replies[i])
           /\ replies[i].resp.StatusCode # 200
           /\ replies[i].resp.StatusCode # 429
           /\ replies[i].resp.StatusCode < 500) =>
              /\ i = Len(replies)
              /\ Len(wire) = i
              /\ result.returned
              /\ result.err.type = "api"
              /\ result.err.status = replies[i].resp.StatusCode

\* a 204 at the first send: the API error, one send
C21_Witness ==
    /\ Len(wire) = 1
    /\ Len(replies) = 1
    /\ IsAnswer(replies[1])
    /\ replies[1].resp.StatusCode = 204
    /\ result.returned
    /\ result.err = Err("api", 204, "", <<>>)

\* a 201 after a retried 429
C21_WitnessAfterRetry ==
    /\ Len(replies) = 2
    /\ IsAnswer(replies[1]) /\ replies[1].resp.StatusCode = 429
    /\ IsAnswer(replies[2]) /\ replies[2].resp.StatusCode = 201
    /\ result.returned
    /\ result.err = Err("api", 201, "", <<>>)

(***************************************************************************)
(* C22.  In every state of a Chat invocation, for every maxRetries that    *)
(* WithMaxRetries accepts (0 and negative values included) and every       *)
(* sequence of outcomes, the sends made so far are at most maxRetries + 1, *)
(* and Chat has not returned without having made its initial attempt (an   *)
(* attempt is counted even when doRequest fails before the transport).     *)
(***************************************************************************)
C22_BudgetAndInitialAttempt ==
    /\ Len(wire) <= client.maxRetries + 1
    /\ calls <= client.maxRetries + 1
    /\ result.returned => calls >= 1

\* what holds of the code: the bound on the sends for every maxRetries, and
\* the initial attempt for every maxRetries that is not negative
C22_BudgetAndInitialAttemptIfNonNegative ==
    /\ Len(wire) <= client.maxRetries + 1
    /\ calls <= client.maxRetries + 1
    /\ (result.returned /\ client.maxRetries >= 0) => calls >= 1

\* WithMaxRetries(-1): Chat returns "max retries exceeded" around a nil cause,
\* and no attempt was made
C22_ReturnWithoutAttempt ==
    /\ client.maxRetries = -1
    /\ result.returned
    /\ result.err = Err("maxretries", 0, "", <<NilErr>>)
    /\ calls = 0
    /\ wire = <<>>

(***************************************************************************)
(* C23.  Every Chat invocation eventually returns, a response or an error, *)
(* for every sequence of outcomes of the sends and whenever the caller     *)
(* cancels or does not, given that every send returns and every backoff    *)
(* timer fires: a Chat that is running (about to send, sending, waiting)   *)
(* leads to a Chat that has returned, and every invocation returns.        *)
(***************************************************************************)
ChatRunning == pc \in {"doRequest", "inflight", "wait"}

C23_ChatEventuallyReturns ==
    /\ ChatRunning ~> result.returned
    /\ <>result.returned

\* Chat has returned after it waited through every backoff, uncancelled
C23_Witness ==
    /\ op.name = "Chat"
    /\ result.returned
    /\ ~ctx.done
    /\ attempt = 4
    /\ Len(waits) = 3
    /\ Len(replies) = 4

(***************************************************************************)
(* C24.  GenerateSchema comes to an end, with a schema or an error, for    *)
(* every struct type it is given, the types that refer to themselves       *)
(* through a pointer field or a slice field included: the recursion never  *)
(* runs out of stack.                                                      *)
(***************************************************************************)
C24_GenerationTerminates ==
    (Generated /\ IsStruct) => schOut[1].kind # "overflow"

\* the struct has a field whose type leads back to the struct itself
RECURSIVE RefersBack(_)
RefersBack(t) ==
    \/ t.kind = "ref"
    \/ t.elem # <<>> /\ RefersBack(t.elem[1])
    \/ \E i \in 1..Len(t.fields) : IsVisited(t.fields[i]) /\ RefersBack(t.fields[i].Type)

\* what holds of the code: the generation ends for every struct that does not
\* refer to itself, and only for those
C24_TerminatesIffNoSelfReference ==
    (Generated /\ IsStruct) => (schOut[1].kind = "overflow" <=> RefersBack(SchType))

\* type Node struct { Value int; Next *Node }: the recursion does not end
C24_NodeOverflows ==
    /\ Generated
    /\ schArg[1] = PtrTo(NodeType)
    /\ schOut[1] = GenOverflow

====
